---- MODULE Spec2Model ----
(***************************************************************************)
(* Model of mirage (src/src/lib.rs): a deduplicator that plans Copy and    *)
(* Symlink actions in a journal (.mirage/wal.json), executes them with a   *)
(* checkpoint, and reverts them by replaying inverted actions.             *)
(***************************************************************************)
EXTENDS Integers, Sequences, FiniteSets, TLC

\* ------------------------------------------------------------------ bounds
MaxCrashes == 1      \* process crashes in one behaviour
MaxFailures == 1     \* injected I/O failures of executor operations

\* ------------------------------------------------------------ the universe
OriginalsDir == ".mirage/originals"
Dirs == <<"d1", "d2">>
Names == <<"x", "y">>
Contents == {<<1>>, <<2>>}

P(d, n) == [dir |-> d, name |-> n]

\* walkdir::WalkDir::new(target).sort_by_file_name(): directories in name
\* order, and the entries of each directory in name order.
WalkOrder ==
    <<P(Dirs[1], Names[1]), P(Dirs[1], Names[2]),
      P(Dirs[2], Names[1]), P(Dirs[2], Names[2])>>

UserPaths == {WalkOrder[i] : i \in 1..Len(WalkOrder)}
OrigPaths == {P(OriginalsDir, Names[i]) : i \in 1..Len(Names)}
AllPaths == UserPaths \cup OrigPaths

\* the whole listing of a target: the side-store, the directories and an
\* entry with a reserved name besides the user files, in walk order
MirageDir == ".mirage"
ReservedName == ".mirage_x"
DirPath(d) == P("", d)
ScanOrder ==
    <<DirPath(MirageDir), P(OriginalsDir, Names[1]), P(OriginalsDir, Names[2]),
      DirPath(Dirs[1]), P(Dirs[1], ReservedName),
      P(Dirs[1], Names[1]), P(Dirs[1], Names[2]),
      DirPath(Dirs[2]), P(Dirs[2], Names[1]), P(Dirs[2], Names[2])>>
ScanPaths == {ScanOrder[i] : i \in 1..Len(ScanOrder)}

\* s.starts_with(".mirage"), over the names of the universe
StartsWithMirage(s) == s \in {MirageDir, OriginalsDir, ReservedName}

\* a path below .mirage
InSideStore(p) == p.dir = OriginalsDir

\* a filter that prunes the side-store directory alone
IsMirageExactName(p) == InSideStore(p) \/ p.name = MirageDir

\* filter_entry(|f| !is_mirage(f)): an entry whose file name starts with
\* .mirage is not yielded, and nothing below such a directory is walked
is_mirage(p) == StartsWithMirage(p.dir) \/ StartsWithMirage(p.name)

\* ------------------------------------------------------ filesystem entries
NoTarget == P("", "")
NoEntry == [kind |-> "none", content |-> <<>>, target |-> NoTarget]
RegFile(c) == [kind |-> "file", content |-> c, target |-> NoTarget]
DirEntry == [kind |-> "dir", content |-> <<>>, target |-> NoTarget]
Link(t) == [kind |-> "symlink", content |-> <<>>, target |-> t]

\* the path an open() of p ends at (one level: links point into originals)
Resolve(f, p) == IF f[p].kind = "symlink" THEN f[p].target ELSE p

\* Path::exists(): follows symlinks, false for a dangling symlink
Exists(f, p) ==
    \/ f[p].kind = "file"
    \/ /\ f[p].kind = "symlink"
       /\ f[p].target \in AllPaths
       /\ f[f[p].target].kind = "file"

\* fs::copy(src, dst): fails when src cannot be opened; opens dst with
\* create+truncate through a symlink; copying a file onto itself empties it
CopyFails(f, src, dst) ==
    \/ ~Exists(f, src)
    \/ Resolve(f, dst) \notin AllPaths

fs_copy(f, src, dst) ==
    LET from == Resolve(f, src)
        to == Resolve(f, dst)
        bytes == IF from = to THEN <<>> ELSE f[from].content
    IN [f EXCEPT ![to] = RegFile(bytes)]

remove_file(f, p) == [f EXCEPT ![p] = NoEntry]

\* symlink_file(target, source) fails with EEXIST when source has any entry
SymlinkFails(f, source) == f[source].kind # "none"
symlink_file(f, target, source) == [f EXCEPT ![source] = Link(target)]

\* ---------------------------------------------------------------- journal
Copy == "Copy"
Symlink == "Symlink"
NOP == "NOP"

Action(a, s, t) == [action |-> a, source |-> s, target |-> t]

\* an inverse that keeps source and target where they were
InvertNoSwap(a) ==
    CASE a.action = Copy -> Action(NOP, a.source, a.target)
      [] a.action = Symlink -> Action(Copy, a.source, a.target)
      [] OTHER -> Action(NOP, a.source, a.target)

invert(a) ==
    CASE a.action = Copy -> Action(NOP, a.target, a.source)
      [] a.action = Symlink -> Action(Copy, a.target, a.source)
      [] OTHER -> Action(NOP, a.source, a.target)

\* WAL::default()
DefaultWAL == [actions |-> <<>>, redirections |-> <<>>, checkpoint |-> 0]

contains_key(m, k) == k \in DOMAIN m

\* an insert called with key and value in each other's place
InsertSwapped(m, k, v) ==
    [q \in (DOMAIN m) \cup {v} |-> IF q = v THEN k ELSE m[q]]

\* HashMap::insert
insert(m, k, v) == [q \in (DOMAIN m) \cup {k} |-> IF q = k THEN v ELSE m[q]]

\* ------------------------------------------------------------- comparator
\* let mut buf1 = [0; 10000], scaled to the contents of the model
BufSize == 2

Min(a, b) == IF a < b THEN a ELSE b

\* one read(&mut buf): the bytes a full read returns at offset pos
ReadAt(c, pos) == SubSeq(c, pos + 1, Min(Len(c), pos + BufSize))

\* the buffer after a read: the bytes read, then what was there before
Fill(buf, got) == [i \in 1..BufSize |-> IF i <= Len(got) THEN got[i] ELSE buf[i]]

RECURSIVE FullMatchFrom(_, _, _, _, _)
FullMatchFrom(c1, c2, pos, buf1, buf2) ==
    LET got1 == ReadAt(c1, pos)
        got2 == ReadAt(c2, pos)
        b1 == Fill(buf1, got1)
        b2 == Fill(buf2, got2)
    IN IF Len(got1) > 0
       THEN IF Len(got1) = Len(got2) /\ b1 = b2
            THEN FullMatchFrom(c1, c2, pos + Len(got1), b1, b2)
            ELSE FALSE
       ELSE TRUE

ZeroBuf == [i \in 1..BufSize |-> 0]

full_match(c1, c2) == FullMatchFrom(c1, c2, 0, ZeroBuf, ZeroBuf)

\* the comparison cut down to the length test
SameLength(c1, c2) == Len(c1) = Len(c2)

check_if_files_are_same(c1, c2) ==
    IF Len(c1) # Len(c2) THEN FALSE ELSE full_match(c1, c2)

\* ---------------------------------------------------------------- scanner
\* an entry the two loops of apply do not skip: walked, not a symlink, not
\* a directory (every walked path of the model is a file, a link or absent)
IsCandidate(f, p) == ~is_mirage(p) /\ f[p].kind = "file"

\* ---------------------------------------------------------------- planner
\* PlanSame without the `contains_1 && contains_2` skip
PlanSameNoSkip(w, here, there) ==
    LET original_path == P(OriginalsDir, here.name)
    IN [w EXCEPT
          !.actions = @ \o <<Action(Copy, here, original_path),
                             Action(Symlink, here, original_path),
                             Action(Symlink, there, original_path)>>,
          !.redirections =
              insert(insert(@, here, original_path), there, original_path)]

\* the body of `if is_same { ... }`: the journal after the pair (here, there)
PlanSame(w, here, there) ==
    LET contains_1 == contains_key(w.redirections, here)
        contains_2 == contains_key(w.redirections, there)
        original_path == P(OriginalsDir, here.name)
    IN IF contains_1 /\ contains_2 THEN w
       ELSE IF contains_1 THEN
           LET here_pt == w.redirections[here]
           IN [w EXCEPT
                 !.actions = Append(@, Action(Symlink, there, here_pt)),
                 !.redirections = insert(@, there, here_pt)]
       ELSE IF contains_2 THEN
           LET there_pt == w.redirections[there]
           IN [w EXCEPT
                 !.actions = Append(@, Action(Symlink, here, there_pt)),
                 !.redirections = insert(@, here, there_pt)]
       ELSE [w EXCEPT
               !.actions = @ \o <<Action(Copy, here, original_path),
                                  Action(Symlink, here, original_path),
                                  Action(Symlink, there, original_path)>>,
               !.redirections =
                   insert(insert(@, here, original_path), there, original_path)]

\* --------------------------------------------------------- journal on disk
\* wal.json: absent, zero-length, undecodable, or a decodable journal
NoWalFile == [st |-> "absent", wal |-> DefaultWAL]
EmptyWalFile == [st |-> "empty", wal |-> DefaultWAL]
PartialWalFile == [st |-> "partial", wal |-> DefaultWAL]
WalFile(w) == [st |-> "ok", wal |-> w]

\* OpenOptions::new().truncate(true).write(true).open(wal_path)
OpenTruncate(d) == EmptyWalFile

\* a commit that leaves the checkpoint out of the record
WriteJournalNoCheckpoint(d, w) == WalFile([w EXCEPT !.checkpoint = 0])

\* serde_json::to_writer_pretty(BufWriter::new(file), &self.wal)
WriteJournal(d, w) == WalFile(w)

\* ----------------------------------------------------------- executor/revert
\* for action in state.wal.actions.iter().skip(state.wal.checkpoint)
HasNext(w) == w.checkpoint < Len(w.actions)
\* the executor walking the journal from its end
NextIndexFromEnd(w) == Len(w.actions) - w.checkpoint

NextIndex(w) == w.checkpoint + 1
NextAction(w) == w.actions[NextIndex(w)]

\* checkpoint advanced by two
AdvanceTwice(w) == [w EXCEPT !.checkpoint = @ + 2]

\* state.wal.checkpoint += 1
Advance(w) == [w EXCEPT !.checkpoint = @ + 1]

\* the error of a filesystem call dropped: the loop goes on
OnIoErrorIgnored(w) == [resume |-> TRUE, wal |-> w]

\* `?` on a failed filesystem call: apply returns, nothing else runs
OnIoError(w) == [resume |-> FALSE, wal |-> w]

Reverse(s) == [i \in 1..Len(s) |-> s[Len(s) + 1 - i]]
Skip(s, n) == SubSeq(s, n + 1, Len(s))
Map(s) == [i \in 1..Len(s) |-> invert(s[i])]

\* actions.iter().rev().skip(actions.len() - checkpoint).map(|f| f.invert())
RevertSequence(w) == Map(Skip(Reverse(w.actions), Len(w.actions) - w.checkpoint))

\* fs::remove_dir_all(mirage_path): canonical copies go with the directory
remove_dir_all(f) ==
    [q \in DOMAIN f |-> IF InSideStore(q) THEN NoEntry ELSE f[q]]

\* ------------------------------------------------------------------- state
VARIABLES
    fs,            \* the entry at every path of the tree and of originals
    mirage,        \* .mirage and .mirage/originals exist
    disk,          \* .mirage/wal.json
    pc,            \* position of the running invocation, "idle" between runs
    op,            \* "apply", "revert" or "none"
    state,         \* state.wal of the running invocation
    hi, ti,        \* positions of the outer and inner walk of the planner
    ri,            \* position in the reverter's inverted sequence
    ret,           \* where the commit in progress returns to
    tree0,         \* history: the tree before the first invocation
    crashes, failures,
    torn,          \* history: a crash hit a commit between truncate and write
    reverted,      \* history: a revert was started
    applied,       \* history: applied[i] = times action i of the journal took effect
    lastDone,      \* history: how the last invocation ended
    errIdx,        \* history: index of the action whose operation failed
    interruptedAt, \* history: checkpoint on disk when the executor was interrupted
    lastCommitted, inflight, \* history: journals handed to commit
    revOfApplied,  \* history: the running revert follows a completed apply
    second, snapFs, snapDisk, \* history: the state a repeated apply started from
    snapMirage,    \* history: .mirage existed when the invocation began
    revFirst,      \* history: the running revert is the first one started
    revErrAt,      \* history: position of the inverse action that failed, else 0
    walk,          \* the listing of the target the walks of apply go through
    crashedIn,     \* history: the invocation the last crash ended
    rerun,         \* history: the running revert follows a revert that crashed
    cmp,           \* one run of check_if_files_are_same, read by read
    inv            \* one call of Action::invert

\* the variables of apply and revert
mainVars == <<fs, mirage, disk, pc, op, state, hi, ti, ri, ret, tree0, crashes,
              failures, torn, reverted, applied, lastDone, errIdx,
              interruptedAt, lastCommitted, inflight, revOfApplied, second,
              snapFs, snapDisk, snapMirage, revFirst, revErrAt, crashedIn,
              rerun, walk>>

vars == <<mainVars, cmp, inv>>

histVars == <<tree0, crashes, failures, torn, reverted, applied, lastDone,
              errIdx, interruptedAt, lastCommitted, inflight, revOfApplied,
              second, snapFs, snapDisk, snapMirage, revFirst, revErrAt,
              crashedIn, rerun, walk>>

\* what no step of apply or revert touches
auxVars == <<snapMirage, revFirst, crashedIn, rerun, walk, cmp, inv>>

\* the comparator and invert before they are called
CmpIdle == [pc |-> "off", c1 |-> <<>>, c2 |-> <<>>, pos1 |-> 0, pos2 |-> 0,
            buf1 |-> <<>>, buf2 |-> <<>>, n1 |-> 0, res |-> "none", errs |-> 0]
InvIdle == [done |-> FALSE, arg |-> Action(NOP, NoTarget, NoTarget),
            res |-> Action(NOP, NoTarget, NoTarget)]

N == Len(walk)

Trees ==
    {f \in [AllPaths -> {NoEntry} \cup {RegFile(c) : c \in Contents}] :
        \A q \in OrigPaths : f[q] = NoEntry}

EmptyTree == [q \in AllPaths |-> NoEntry]

\* the state before the first invocation, over the trees ts
InitOn(ts, w) ==
    /\ fs \in ts
    /\ walk = w
    /\ mirage = (\E q \in DOMAIN fs :
                    /\ InSideStore(q) \/ q = DirPath(MirageDir)
                    /\ fs[q].kind # "none")
    /\ disk = NoWalFile
    /\ pc = "idle"
    /\ op = "none"
    /\ state = DefaultWAL
    /\ hi = 1 /\ ti = 1 /\ ri = 1
    /\ ret = "plan"
    /\ tree0 = fs
    /\ crashes = 0 /\ failures = 0
    /\ torn = FALSE /\ reverted = FALSE
    /\ applied = <<>>
    /\ lastDone = "none"
    /\ errIdx = -1
    /\ interruptedAt = -1
    /\ lastCommitted = DefaultWAL /\ inflight = DefaultWAL
    /\ revOfApplied = FALSE
    /\ second = FALSE /\ snapFs = fs /\ snapDisk = NoWalFile
    /\ snapMirage = FALSE /\ revFirst = FALSE /\ revErrAt = 0
    /\ crashedIn = "none" /\ rerun = FALSE

InitWith(ts) == InitOn(ts, WalkOrder)

Init == InitWith(Trees) /\ cmp = CmpIdle /\ inv = InvIdle

Applied(i) == IF i <= Len(applied) THEN applied[i] ELSE 0
Bump(i) ==
    [j \in 1..(IF i > Len(applied) THEN i ELSE Len(applied)) |->
        Applied(j) + (IF j = i THEN 1 ELSE 0)]

\* ------------------------------------------------------- MirageState::get
\* a journal file taken for decodable whatever it holds
DecodableAlways(d) == TRUE

\* serde_json::from_reader(BufReader::new(file)) on a non-empty wal.json
Decodable(d) == d.st # "partial"

\* the invocation o begins: MirageState::get up to the decode of wal.json
Start(o) ==
    /\ pc = "idle"
    /\ op' = o
    /\ errIdx' = -1
    /\ reverted' = (reverted \/ o = "revert")
    /\ revOfApplied' = (o = "revert" /\ lastDone = "apply_ok" /\ ~reverted)
    /\ second' = (o = "apply" /\ lastDone = "apply_ok")
    /\ snapFs' = fs
    /\ snapDisk' = disk
    /\ snapMirage' = mirage
    /\ revFirst' = (o = "revert" /\ ~reverted)
    /\ revErrAt' = 0
    /\ rerun' = (o = "revert" /\ lastDone = "crash" /\ crashedIn = "revert")
    /\ UNCHANGED <<crashedIn, walk, cmp, inv>>
    /\ interruptedAt' = IF o = "apply" /\ lastDone = "crash"
                        THEN interruptedAt ELSE -1
    /\ hi' = 1 /\ ti' = 1 /\ ri' = 1
    /\ UNCHANGED <<fs, ret, tree0, crashes, failures, torn, applied,
                   lastCommitted, inflight>>
    /\ IF ~Decodable(disk)
       THEN \* serde_json::from_reader fails: JsonError
            /\ pc' = "idle"
            /\ lastDone' = IF o = "apply" THEN "apply_err" ELSE "revert_err"
            /\ UNCHANGED <<mirage, disk, state>>
       ELSE IF disk.st = "ok"
       THEN /\ pc' = IF o = "apply" THEN "plan" ELSE "rev"
            /\ state' = disk.wal
            /\ lastDone' = "none"
            /\ UNCHANGED <<mirage, disk>>
       ELSE \* create_dir(.mirage), create_dir(originals), open(create)
            /\ pc' = "get_w"
            /\ mirage' = TRUE
            /\ disk' = EmptyWalFile
            /\ lastDone' = "none"
            /\ UNCHANGED state

StartApply == Start("apply")
StartRevert == Start("revert")

\* the zero-length wal.json gets WAL::default()
GetWrite ==
    /\ UNCHANGED <<auxVars, revErrAt>>
    /\ pc = "get_w"
    /\ disk' = WriteJournal(disk, DefaultWAL)
    /\ state' = DefaultWAL
    /\ pc' = IF op = "apply" THEN "plan" ELSE "rev"
    /\ applied' = <<>>
    /\ lastCommitted' = DefaultWAL
    /\ inflight' = DefaultWAL
    /\ UNCHANGED <<fs, mirage, op, hi, ti, ri, ret, tree0, crashes, failures,
                   torn, reverted, lastDone, errIdx, interruptedAt,
                   revOfApplied, second, snapFs, snapDisk>>

\* ---------------------------------------------------- MirageState::commit
CommitTruncate ==
    /\ UNCHANGED <<auxVars, revErrAt>>
    /\ pc = "commit_t"
    /\ disk' = OpenTruncate(disk)
    /\ inflight' = state
    /\ pc' = "commit_w"
    /\ UNCHANGED <<fs, mirage, op, state, hi, ti, ri, ret, tree0, crashes,
                   failures, torn, reverted, applied, lastDone, errIdx,
                   interruptedAt, lastCommitted, revOfApplied, second,
                   snapFs, snapDisk>>

CommitWrite ==
    /\ UNCHANGED <<auxVars, revErrAt>>
    /\ pc = "commit_w"
    /\ disk' = WriteJournal(disk, state)
    /\ lastCommitted' = state
    /\ pc' = ret
    /\ UNCHANGED <<fs, mirage, op, state, hi, ti, ri, ret, tree0, crashes,
                   failures, torn, reverted, applied, lastDone, errIdx,
                   interruptedAt, inflight, revOfApplied, second, snapFs,
                   snapDisk>>

\* ------------------------------------------------------------ apply: plan
\* one turn of the nested walks of apply, from the positions (h, t) of the
\* outer and inner walk over the tree f with the journal w in memory
PlanTurn(w, f, h, t) ==
    IF ~IsCandidate(f, walk[h]) \/ t > N
    THEN [wal |-> w, hi |-> h + 1, ti |-> 1]
    ELSE LET here == walk[h]
             there == walk[t]
             is_same == /\ IsCandidate(f, there)
                        /\ here # there
                        /\ check_if_files_are_same(f[here].content,
                                                   f[there].content)
         IN [wal |-> IF is_same THEN PlanSame(w, here, there) ELSE w,
             hi |-> h, ti |-> t + 1]

\* a planner that appends to the journal in memory and never commits
NeverCommit(old, new) == FALSE

\* state.commit()? closes every branch of the planner that changes the journal
NeedsCommit(old, new) == new # old

PlanStep ==
    /\ pc = "plan"
    /\ UNCHANGED <<fs, mirage, disk, op, ri, histVars, cmp, inv>>
    /\ IF hi > N
       THEN /\ pc' = "exec"
            /\ UNCHANGED <<state, hi, ti, ret>>
       ELSE LET r == PlanTurn(state, fs, hi, ti)
            IN /\ state' = r.wal
               /\ hi' = r.hi
               /\ ti' = r.ti
               /\ ret' = "plan"
               /\ pc' = IF NeedsCommit(state, r.wal) THEN "commit_t" ELSE "plan"

\* --------------------------------------------------------- apply: execute
\* a filesystem call of the executor returned Err
IoError ==
    LET r == OnIoError(state)
    IN /\ errIdx' = state.checkpoint
       /\ IF r.resume
          THEN /\ pc' = "commit_t"
               /\ ret' = "exec"
               /\ state' = Advance(r.wal)
               /\ UNCHANGED <<op, lastDone>>
          ELSE /\ pc' = "idle"
               /\ op' = "none"
               /\ state' = DefaultWAL
               /\ lastDone' = "apply_err"
               /\ UNCHANGED ret

\* the head of one turn of the executor loop: Copy and NOP entirely, and
\* the `if action.source.exists() { remove_file }` of Symlink
ExecStep ==
    /\ UNCHANGED <<auxVars, revErrAt>>
    /\ pc = "exec"
    /\ UNCHANGED <<mirage, disk, hi, ti, ri, tree0, crashes, failures, torn,
                   reverted, interruptedAt, lastCommitted, inflight,
                   revOfApplied, second, snapFs, snapDisk>>
    /\ IF ~HasNext(state)
       THEN /\ pc' = "idle"
            /\ op' = "none"
            /\ state' = DefaultWAL
            /\ lastDone' = "apply_ok"
            /\ UNCHANGED <<fs, ret, applied, errIdx>>
       ELSE LET a == NextAction(state)
                i == NextIndex(state)
            IN IF a.action = Copy
               THEN IF CopyFails(fs, a.source, a.target)
                    THEN IoError /\ UNCHANGED <<fs, applied>>
                    ELSE /\ fs' = fs_copy(fs, a.source, a.target)
                         /\ applied' = Bump(i)
                         /\ state' = Advance(state)
                         /\ pc' = "commit_t"
                         /\ ret' = "exec"
                         /\ UNCHANGED <<op, lastDone, errIdx>>
               ELSE IF a.action = Symlink
               THEN /\ fs' = IF Exists(fs, a.source)
                             THEN remove_file(fs, a.source) ELSE fs
                    /\ pc' = "exec_link"
                    /\ UNCHANGED <<op, state, ret, applied, lastDone, errIdx>>
               ELSE /\ state' = Advance(state)
                    /\ applied' = Bump(i)
                    /\ pc' = "commit_t"
                    /\ ret' = "exec"
                    /\ UNCHANGED <<fs, op, lastDone, errIdx>>

\* symlink_file(action.target, action.source) and checkpoint += 1
ExecSymlinkLink ==
    /\ UNCHANGED <<auxVars, revErrAt>>
    /\ pc = "exec_link"
    /\ UNCHANGED <<mirage, disk, hi, ti, ri, tree0, crashes, failures, torn,
                   reverted, interruptedAt, lastCommitted, inflight,
                   revOfApplied, second, snapFs, snapDisk>>
    /\ LET a == NextAction(state)
           i == NextIndex(state)
       IN IF SymlinkFails(fs, a.source)
          THEN IoError /\ UNCHANGED <<fs, applied>>
          ELSE /\ fs' = symlink_file(fs, a.target, a.source)
               /\ applied' = Bump(i)
               /\ state' = Advance(state)
               /\ pc' = "commit_t"
               /\ ret' = "exec"
               /\ UNCHANGED <<op, lastDone, errIdx>>

\* the operating system fails the filesystem call the executor is about to make
ExecIoFailure ==
    /\ UNCHANGED <<auxVars, revErrAt>>
    /\ pc \in {"exec", "exec_link"}
    /\ HasNext(state)
    /\ NextAction(state).action # NOP
    /\ failures < MaxFailures
    /\ failures' = failures + 1
    /\ IoError
    /\ UNCHANGED <<fs, mirage, disk, hi, ti, ri, tree0, crashes, torn,
                   reverted, applied, interruptedAt, lastCommitted, inflight,
                   revOfApplied, second, snapFs, snapDisk>>

\* ------------------------------------------------------------------ revert
\* a reverter loop taken for finished at any position
LoopDoneEarly(w, i) == TRUE

\* the reverter loop has replayed every inverse action
LoopDone(w, i) == i > Len(RevertSequence(w))

\* `?` on a failed filesystem call of revert: revert returns the error
RevError ==
    /\ pc' = "idle"
    /\ op' = "none"
    /\ state' = DefaultWAL
    /\ lastDone' = "revert_err"
    /\ revErrAt' = IF ri <= Len(RevertSequence(state)) THEN ri ELSE 0

\* the head of one turn of the reverter loop
RevStep ==
    /\ UNCHANGED auxVars
    /\ pc = "rev"
    /\ ri <= Len(RevertSequence(state))
    /\ UNCHANGED <<mirage, disk, hi, ti, ret, tree0, crashes, failures, torn,
                   reverted, applied, errIdx, interruptedAt, lastCommitted,
                   inflight, revOfApplied, second, snapFs, snapDisk>>
    /\ LET a == RevertSequence(state)[ri]
       IN IF a.action = Copy
          THEN /\ fs' = IF Exists(fs, a.target)
                        THEN remove_file(fs, a.target) ELSE fs
               /\ pc' = "rev_copy"
               /\ UNCHANGED <<op, state, ri, lastDone, revErrAt>>
          ELSE IF a.action = Symlink
          THEN IF SymlinkFails(fs, a.target)
               THEN RevError /\ UNCHANGED <<fs, ri>>
               ELSE /\ fs' = symlink_file(fs, a.source, a.target)
                    /\ ri' = ri + 1
                    /\ UNCHANGED <<pc, op, state, lastDone, revErrAt>>
          ELSE /\ ri' = ri + 1
               /\ UNCHANGED <<fs, pc, op, state, lastDone, revErrAt>>

\* fs::copy(action.source, action.target) of an inverted Symlink
RevCopy ==
    /\ UNCHANGED auxVars
    /\ pc = "rev_copy"
    /\ UNCHANGED <<mirage, disk, hi, ti, ret, tree0, crashes, failures, torn,
                   reverted, applied, errIdx, interruptedAt, lastCommitted,
                   inflight, revOfApplied, second, snapFs, snapDisk>>
    /\ LET a == RevertSequence(state)[ri]
       IN IF CopyFails(fs, a.source, a.target)
          THEN RevError /\ UNCHANGED <<fs, ri>>
          ELSE /\ fs' = fs_copy(fs, a.source, a.target)
               /\ ri' = ri + 1
               /\ pc' = "rev"
               /\ UNCHANGED <<op, state, lastDone, revErrAt>>

\* a revert that never removes the side-store
CleanupNever(m) == FALSE

\* if mirage_path.exists()
CleanupNeeded(m) == m

WalPath == P(".mirage", "wal.json")

\* what remove_dir_all still finds below .mirage
SideStoreEntries(f, d) ==
    {q \in OrigPaths : f[q].kind # "none"}
        \cup (IF d.st # "absent" THEN {WalPath} ELSE {})

\* fs::remove_dir_all(mirage_path) unlinks one entry, in the order the
\* directory listing happens to give
RevRemoveEntry ==
    /\ pc = "rev"
    /\ LoopDone(state, ri)
    /\ CleanupNeeded(mirage)
    /\ \E e \in SideStoreEntries(fs, disk) :
          IF e = WalPath
          THEN disk' = NoWalFile /\ fs' = fs
          ELSE disk' = disk /\ fs' = remove_file(fs, e)
    /\ UNCHANGED <<mirage, pc, op, state, hi, ti, ri, ret, histVars, cmp, inv>>

\* remove_dir_all removes the emptied directories; revert returns Ok(())
RevCleanup ==
    /\ UNCHANGED <<auxVars, revErrAt>>
    /\ pc = "rev"
    /\ LoopDone(state, ri)
    /\ CleanupNeeded(mirage) => SideStoreEntries(fs, disk) = {}
    /\ fs' = IF CleanupNeeded(mirage) THEN remove_dir_all(fs) ELSE fs
    /\ mirage' = IF CleanupNeeded(mirage) THEN FALSE ELSE mirage
    /\ disk' = IF CleanupNeeded(mirage) THEN NoWalFile ELSE disk
    /\ pc' = "idle"
    /\ op' = "none"
    /\ state' = DefaultWAL
    /\ lastDone' = "revert_ok"
    /\ applied' = <<>>
    /\ UNCHANGED <<hi, ti, ri, ret, tree0, crashes, failures, torn, reverted,
                   errIdx, interruptedAt, lastCommitted, inflight,
                   revOfApplied, second, snapFs, snapDisk>>

\* the operating system fails the filesystem call revert is about to make:
\* remove_file or fs::copy of an inverse action, or an unlink of the cleanup
RevIoFailure ==
    /\ UNCHANGED auxVars
    /\ \/ pc = "rev_copy"
       \/ /\ pc = "rev"
          /\ IF ~LoopDone(state, ri)
             THEN RevertSequence(state)[ri].action # NOP
             ELSE CleanupNeeded(mirage) /\ SideStoreEntries(fs, disk) # {}
    /\ failures < MaxFailures
    /\ failures' = failures + 1
    /\ RevError
    /\ UNCHANGED <<fs, mirage, disk, hi, ti, ri, ret, tree0, crashes, torn,
                   reverted, applied, errIdx, interruptedAt, lastCommitted,
                   inflight, revOfApplied, second, snapFs, snapDisk>>

\* ------------------------------------------------------------------- crash
InExecutor == pc \in {"exec", "exec_link"} \/ (pc = "commit_t" /\ ret = "exec")

\* the process dies: memory is lost, the filesystem stays as it is; a
\* wal.json opened with truncate and not yet rewritten stays empty or cut
Crash ==
    /\ UNCHANGED <<snapMirage, revFirst, revErrAt, rerun, walk, cmp, inv>>
    /\ crashedIn' = op
    /\ pc # "idle"
    /\ crashes < MaxCrashes
    /\ crashes' = crashes + 1
    /\ pc' = "idle"
    /\ op' = "none"
    /\ state' = DefaultWAL
    /\ hi' = 1 /\ ti' = 1 /\ ri' = 1
    /\ \E d \in (IF pc \in {"commit_w", "get_w"}
                 THEN {EmptyWalFile, PartialWalFile} ELSE {disk}) : disk' = d
    /\ torn' = (torn \/ pc = "commit_w")
    /\ lastDone' = "crash"
    /\ interruptedAt' =
          IF op = "apply" /\ disk.st = "ok" /\ ~torn /\ ~reverted
          THEN (IF InExecutor THEN disk.wal.checkpoint ELSE interruptedAt)
          ELSE -1
    /\ UNCHANGED <<fs, mirage, ret, tree0, failures, reverted, applied,
                   errIdx, lastCommitted, inflight, revOfApplied, second,
                   snapFs, snapDisk>>

Next ==
    \/ StartApply
    \/ StartRevert
    \/ GetWrite
    \/ CommitTruncate
    \/ CommitWrite
    \/ PlanStep
    \/ ExecStep
    \/ ExecSymlinkLink
    \/ ExecIoFailure
    \/ RevStep
    \/ RevCopy
    \/ RevRemoveEntry
    \/ RevCleanup
    \/ RevIoFailure
    \/ Crash

Spec == Init /\ [][Next]_vars

TypeOK ==
    /\ pc \in {"idle", "get_w", "plan", "commit_t", "commit_w", "exec",
               "exec_link", "rev", "rev_copy"}
    /\ op \in {"none", "apply", "revert"}
    /\ disk.st \in {"absent", "empty", "partial", "ok"}
    /\ mirage \in BOOLEAN

\* ------------------------------------- check_if_files_are_same, read by read
MaxLen == 3
MaxReadErrors == 1

RECURSIVE SeqsUpTo(_)
SeqsUpTo(n) ==
    IF n = 0 THEN {<<>>}
    ELSE SeqsUpTo(n - 1) \cup [1..n -> {1, 2}]

\* the two files handed to the comparator
CmpInputs ==
    {[CmpIdle EXCEPT !.pc = "start", !.c1 = a, !.c2 = b,
                     !.buf1 = ZeroBuf, !.buf2 = ZeroBuf] :
        a \in SeqsUpTo(MaxLen), b \in SeqsUpTo(MaxLen)}

InitCmp == InitWith({EmptyTree}) /\ cmp \in CmpInputs /\ inv = InvIdle

\* the byte counts one read(&mut buf) may return with rest bytes left:
\* 0 only at the end of the file, else any count up to the buffer size
ReadCounts(rest) == IF rest = 0 THEN {0} ELSE 1..Min(BufSize, rest)

CmpReturn(r) == [cmp EXCEPT !.pc = "done", !.res = r]

\* here.metadata()?, there.metadata()?, the length test
CmpStart ==
    /\ cmp.pc = "start"
    /\ cmp' = IF Len(cmp.c1) # Len(cmp.c2)
              THEN CmpReturn("false")
              ELSE [cmp EXCEPT !.pc = "read1"]
    /\ UNCHANGED <<mainVars, inv>>

\* metadata() or File::open returns Err: `?` returns it
CmpOpenFails ==
    /\ cmp.pc = "start"
    /\ cmp.errs < MaxReadErrors
    /\ cmp' = [CmpReturn("Err") EXCEPT !.errs = @ + 1]
    /\ UNCHANGED <<mainVars, inv>>

\* if let Ok(n1) = reader1.read(&mut buf1) { if n1 > 0 {..} else { break } }
CmpRead1 ==
    /\ cmp.pc = "read1"
    /\ \E n \in ReadCounts(Len(cmp.c1) - cmp.pos1) :
          cmp' = IF n > 0
                 THEN [cmp EXCEPT
                         !.buf1 = Fill(@, SubSeq(cmp.c1, cmp.pos1 + 1,
                                                 cmp.pos1 + n)),
                         !.pos1 = @ + n,
                         !.n1 = n,
                         !.pc = "read2"]
                 ELSE CmpReturn("true")
    /\ UNCHANGED <<mainVars, inv>>

\* reader1.read returns Err: the else branch breaks to `return Ok(true)`
CmpRead1Fails ==
    /\ cmp.pc = "read1"
    /\ cmp.errs < MaxReadErrors
    /\ cmp' = [CmpReturn("true") EXCEPT !.errs = @ + 1]
    /\ UNCHANGED <<mainVars, inv>>

\* if let Ok(n2) = reader2.read(&mut buf2) { n1 == n2 && buf1 == buf2 .. }
CmpRead2 ==
    /\ cmp.pc = "read2"
    /\ \E n \in ReadCounts(Len(cmp.c2) - cmp.pos2) :
          LET b2 == Fill(cmp.buf2, SubSeq(cmp.c2, cmp.pos2 + 1, cmp.pos2 + n))
          IN cmp' = IF cmp.n1 = n /\ cmp.buf1 = b2
                    THEN [cmp EXCEPT !.buf2 = b2, !.pos2 = @ + n,
                                     !.pc = "read1"]
                    ELSE [CmpReturn("false") EXCEPT !.buf2 = b2,
                                                    !.pos2 = @ + n]
    /\ UNCHANGED <<mainVars, inv>>

\* reader2.read returns Err: the if-let has no else, the loop goes round
CmpRead2Fails ==
    /\ cmp.pc = "read2"
    /\ cmp.errs < MaxReadErrors
    /\ cmp' = [cmp EXCEPT !.pc = "read1", !.errs = @ + 1]
    /\ UNCHANGED <<mainVars, inv>>

NextCmp ==
    \/ CmpStart
    \/ CmpOpenFails
    \/ CmpRead1
    \/ CmpRead1Fails
    \/ CmpRead2
    \/ CmpRead2Fails

SpecCmp == InitCmp /\ [][NextCmp]_vars

\* --------------------------------------------------- Action::invert alone
\* the actions handed to invert
InvInputs ==
    {[InvIdle EXCEPT !.arg = Action(k, s, t)] :
        k \in {Copy, Symlink, NOP}, s \in AllPaths, t \in AllPaths}

InitInv == InitWith({EmptyTree}) /\ cmp = CmpIdle /\ inv \in InvInputs

\* let r = a.invert()
InvApply ==
    /\ ~inv.done
    /\ inv' = [inv EXCEPT !.done = TRUE, !.res = invert(inv.arg)]
    /\ UNCHANGED <<mainVars, cmp>>

NextInv == InvApply

SpecInv == InitInv /\ [][NextInv]_vars

\* ------------------------------------------- the walks over a whole listing
\* what a user path of a target may hold before an apply: nothing, a file,
\* or a symlink left by an earlier run
ScanEntries ==
    {NoEntry, Link(P(OriginalsDir, Names[1]))} \cup {RegFile(c) : c \in Contents}

\* targets with their directories, a side-store directory without journal
\* that may hold a canonical copy, and a file with a reserved name
ScanTrees ==
    {[q \in ScanPaths |->
        IF q \in UserPaths THEN u[q]
        ELSE IF q = P(Dirs[1], ReservedName) THEN r
        ELSE IF q = P(OriginalsDir, Names[1]) THEN o
        ELSE IF q = P(OriginalsDir, Names[2]) THEN NoEntry
        ELSE DirEntry] :
        u \in [UserPaths -> ScanEntries],
        r \in {NoEntry, RegFile(<<1>>)},
        o \in {NoEntry, RegFile(<<1>>)}}

InitScan == InitOn(ScanTrees, ScanOrder) /\ cmp = CmpIdle /\ inv = InvIdle

\* apply after apply, nothing interrupting
NextScan ==
    \/ StartApply
    \/ GetWrite
    \/ CommitTruncate
    \/ CommitWrite
    \/ PlanStep
    \/ ExecStep
    \/ ExecSymlinkLink

SpecScan == InitScan /\ [][NextScan]_vars

\* ------------------------------------------- an apply that nothing interrupts
\* the journal when the nested walks of apply end, started at (h, t)
RECURSIVE PlanFrom(_, _, _, _)
PlanFrom(w, f, h, t) ==
    IF h > N THEN w
    ELSE LET r == PlanTurn(w, f, h, t) IN PlanFrom(r.wal, f, r.hi, r.ti)

\* the filesystem effect of one action when no call fails
Effect(f, a) ==
    CASE a.action = Copy -> fs_copy(f, a.source, a.target)
      [] a.action = Symlink ->
            symlink_file(IF Exists(f, a.source) THEN remove_file(f, a.source)
                         ELSE f, a.target, a.source)
      [] OTHER -> f

\* the tree after the executor loop ran actions i.. of acts
RECURSIVE RunFrom(_, _, _)
RunFrom(f, acts, i) ==
    IF i > Len(acts) THEN f ELSE RunFrom(Effect(f, acts[i]), acts, i + 1)

PlanOfTree0 == PlanFrom(DefaultWAL, tree0, 1, 1)
JournalOfTree0 == [PlanOfTree0 EXCEPT !.checkpoint = Len(PlanOfTree0.actions)]
FsOfTree0 == RunFrom(tree0, PlanOfTree0.actions, 1)

\* the files of the original tree with the content of p
Class(p) ==
    {q \in UserPaths : tree0[q].kind = "file" /\ tree0[q].content = tree0[p].content}

Undisturbed == crashes = 0 /\ failures = 0 /\ ~reverted

\* ------------------------------------------------------------------ claims

\* C1: apply run to completion and then revert leaves every original file a
\* regular file at its path with its original content, and no side-store.
C1_RoundTrip ==
    (pc = "idle" /\ lastDone = "revert_ok" /\ revOfApplied
        /\ crashes = 0 /\ failures = 0)
    => /\ \A p \in UserPaths : fs[p] = tree0[p]
       /\ ~mirage
       /\ disk = NoWalFile
       /\ \A q \in OrigPaths : fs[q] = NoEntry

\* C2: an apply interrupted after k of the n planned actions were applied
\* and committed, run again, plans nothing twice, resumes at index k and
\* ends with the journal and the tree of an apply that was not interrupted.
C2_Resumable ==
    (interruptedAt >= 0 /\ failures = 0) =>
       /\ (op = "apply" /\ pc = "plan") =>
             /\ state = disk.wal
             /\ state.actions = PlanOfTree0.actions
             /\ state.checkpoint = interruptedAt
       /\ (op = "apply" /\ pc \in {"exec", "exec_link"}) =>
             /\ state.actions = PlanOfTree0.actions
             /\ state.checkpoint >= interruptedAt
             /\ disk = WalFile(state)
       /\ (pc = "idle" /\ lastDone = "apply_ok") =>
             /\ disk = WalFile(JournalOfTree0)
             /\ fs = FsOfTree0

C2_Witness ==
    /\ pc = "idle" /\ lastDone = "apply_ok"
    /\ failures = 0
    /\ interruptedAt >= 1
    /\ interruptedAt < Len(disk.wal.actions)
    /\ disk.wal.checkpoint = Len(disk.wal.actions)

\* C3 (as claimed): whatever the point of a crash, the journal the next
\* invocation finds in wal.json is the last journal committed or the one
\* whose commit was in flight, never an empty or cut file in its place.
C3_JournalDurable ==
    (pc = "idle" /\ mirage /\ lastCommitted # DefaultWAL) =>
        /\ disk.st = "ok"
        /\ disk.wal \in {lastCommitted, inflight}

CopiesOf(w, c) ==
    {i \in 1..Len(w.actions) :
        w.actions[i].action = Copy /\ w.actions[i].source \in c}

\* C4 (as claimed): after a completed apply every class of two or more
\* content-equal files has exactly one Copy action, the target of that action
\* holds the content of the class, and every member is a symlink to it.
C4_OneCanonicalCopy ==
    (pc = "idle" /\ lastDone = "apply_ok" /\ Undisturbed) =>
        \A p \in UserPaths :
            (tree0[p].kind = "file" /\ Cardinality(Class(p)) >= 2) =>
                /\ Cardinality(CopiesOf(disk.wal, Class(p))) = 1
                /\ \A i \in CopiesOf(disk.wal, Class(p)) :
                      /\ fs[disk.wal.actions[i].target] = RegFile(tree0[p].content)
                      /\ \A q \in Class(p) : fs[q] = Link(disk.wal.actions[i].target)

\* C5 (as claimed): Copy actions planned for files of different content have
\* different canonical paths, and no file is a symlink to content that is not
\* its original content.
C5_CanonicalPathUnique ==
    Undisturbed =>
        /\ \A i, j \in 1..Len(state.actions) :
              (/\ state.actions[i].action = Copy
               /\ state.actions[j].action = Copy
               /\ tree0[state.actions[i].source].content
                      # tree0[state.actions[j].source].content)
              => state.actions[i].target # state.actions[j].target
        /\ \A p \in UserPaths :
              (fs[p].kind = "symlink" /\ Exists(fs, p))
              => fs[fs[p].target].content = tree0[p].content

\* C6: an apply that starts after a completed apply appends no action,
\* leaves redirections and checkpoint as they are, and changes no entry of
\* the tree or of originals.
C6_ApplyIdempotent ==
    second =>
        /\ fs = snapFs
        /\ disk = snapDisk
        /\ (pc # "idle" => state = snapDisk.wal)

C6_Witness ==
    /\ second
    /\ pc = "idle" /\ lastDone = "apply_ok"
    /\ Len(disk.wal.actions) >= 3
    /\ disk.wal.checkpoint = Len(disk.wal.actions)

Sources(w) == {w.actions[i].source : i \in 1..Len(w.actions)}

CheckpointInBounds(w) == 0 <= w.checkpoint /\ w.checkpoint <= Len(w.actions)

\* C8: in memory and on disk, 0 <= checkpoint <= len(actions), across
\* crashes and re-invocations.
C8_CheckpointBounds ==
    /\ CheckpointInBounds(state)
    /\ disk.st = "ok" => CheckpointInBounds(disk.wal)

C8_Witness ==
    /\ crashes >= 1
    /\ op = "apply" /\ pc = "exec"
    /\ disk.st = "ok"
    /\ disk.wal.checkpoint = Len(disk.wal.actions)
    /\ Len(disk.wal.actions) >= 3

C10_AbortOnFailure ==
    errIdx >= 0 =>
        /\ pc = "idle"
        /\ lastDone = "apply_err"
        /\ disk.st = "ok"
        /\ disk.wal.checkpoint = errIdx
        /\ \A j \in 1..Len(disk.wal.actions) : j > errIdx + 1 => Applied(j) = 0

C10_Witness ==
    /\ pc = "idle" /\ lastDone = "apply_err"
    /\ errIdx >= 1
    /\ errIdx < Len(disk.wal.actions)

\* the canonical copies are what they were when the invocation began
OriginalsUnchanged == \A q \in OrigPaths : fs[q] = snapFs[q]

\* C11: revert starts removing the side-store only after every inverse action
\* succeeded; when an inverse action fails revert returns the error and the
\* side-store, the journal file and the canonical copies are still present
\* and as they were when revert began.
C11_SideStoreKept ==
    (\/ /\ op = "revert" /\ pc \in {"rev", "rev_copy"}
        /\ ri <= Len(RevertSequence(state))
     \/ /\ pc = "idle" /\ lastDone = "revert_err"
        /\ revErrAt >= 1)
        => mirage /\ disk = snapDisk /\ OriginalsUnchanged

C11_Witness ==
    /\ pc = "idle" /\ lastDone = "revert_err"
    /\ revErrAt >= 2
    /\ fs # snapFs
    /\ \E q \in OrigPaths : fs[q].kind = "file"

\* the original tree gives no two classes the same canonical path
NoCollision ==
    \A i, j \in 1..Len(PlanOfTree0.actions) :
        (/\ i # j
         /\ PlanOfTree0.actions[i].action = Copy
         /\ PlanOfTree0.actions[j].action = Copy)
        => PlanOfTree0.actions[i].target # PlanOfTree0.actions[j].target

\* C12 (as claimed): a revert started after a revert died in a crash, with a
\* journal it can decode and no failing filesystem call, returns success and
\* leaves every original file a regular file with its original content; it
\* removes no restored file whose canonical copy is gone.
C12_CrashSafeRevert ==
    (/\ rerun /\ pc = "idle" /\ lastDone \in {"revert_ok", "revert_err"}
     /\ failures = 0 /\ ~torn /\ snapDisk.st # "partial"
     /\ NoCollision)
    => /\ lastDone = "revert_ok"
       /\ \A p \in UserPaths : fs[p] = tree0[p]

\* C13: a revert on a target that has no side-store returns success, changes
\* no user file at any step and leaves no side-store behind.
C13_RevertWithoutSideStore ==
    (/\ ~snapMirage
     /\ failures = 0
     /\ \/ op = "revert"
        \/ pc = "idle" /\ lastDone \in {"revert_ok", "revert_err"})
    => /\ \A p \in UserPaths : fs[p] = snapFs[p]
       /\ pc = "idle" =>
            /\ lastDone = "revert_ok"
            /\ ~mirage
            /\ disk = NoWalFile
            /\ \A q \in OrigPaths : fs[q] = NoEntry

C13_Witness ==
    /\ pc = "idle" /\ lastDone = "revert_ok"
    /\ ~snapMirage /\ ~revFirst
    /\ failures = 0
    /\ \E p \in UserPaths : fs[p].kind = "file"

\* C14 (as claimed): when no call fails, the comparator answers true exactly
\* when the two byte sequences are identical, never true for files of
\* different length, whatever number of bytes each read returns.
C14_EqualIffSameBytes ==
    (cmp.pc = "done" /\ cmp.errs = 0) =>
        /\ cmp.res \in {"true", "false"}
        /\ cmp.res = "true" <=> cmp.c1 = cmp.c2

\* C15 (as claimed): after a metadata, open or read call failed the
\* comparator returns the Io error, never an answer equal or not equal.
C15_ErrorsSurfaced ==
    (cmp.pc = "done" /\ cmp.errs > 0) => cmp.res = "Err"

\* C16: an invocation, apply or revert, that finds a non-empty wal.json it
\* cannot decode fails with the decode error before it plans, executes or
\* replays anything: the journal file, the canonical copies and the user
\* files stay as they were.
C16_CorruptJournalRefused ==
    snapDisk.st = "partial" =>
        /\ pc = "idle"
        /\ lastDone \in {"apply_err", "revert_err"}
        /\ fs = snapFs
        /\ disk = snapDisk
        /\ mirage

C16_Witness ==
    /\ snapDisk.st = "partial"
    /\ lastDone = "revert_err"
    /\ \E q \in OrigPaths : fs[q].kind = "file"
    /\ \E p \in UserPaths : fs[p].kind = "symlink"

\* C17: invert turns Copy{s, t} into NOP{t, s}, Symlink{s, t} into
\* Copy{t, s} and NOP{s, t} into NOP{s, t}; the call leaves its argument and
\* every other part of the state as they were.
C17_Invert ==
    [][inv'.done =>
        /\ inv'.arg = inv.arg
        /\ UNCHANGED <<mainVars, cmp>>
        /\ inv.arg.action = Copy =>
              inv'.res = [action |-> NOP, source |-> inv.arg.target,
                          target |-> inv.arg.source]
        /\ inv.arg.action = Symlink =>
              inv'.res = [action |-> Copy, source |-> inv.arg.target,
                          target |-> inv.arg.source]
        /\ inv.arg.action = NOP =>
              inv'.res = [action |-> NOP, source |-> inv.arg.source,
                          target |-> inv.arg.target]]_vars

C17_Witness ==
    /\ inv.done
    /\ inv.arg.action = Symlink
    /\ inv.arg.source # inv.arg.target
    /\ inv.res.action = Copy

\* C18: write-ahead ordering: whenever a step of apply changes the
\* filesystem, the journal file on disk is whole and already holds every
\* action planned so far, at the same positions, the one being executed
\* among them, and the checkpoint on disk is the index of that action.
C18_WriteAhead ==
    [][(op = "apply" /\ fs' # fs) =>
        /\ disk.st = "ok"
        /\ disk.wal.actions = state.actions
        /\ disk.wal.checkpoint = state.checkpoint
        /\ NextIndex(state) \in 1..Len(disk.wal.actions)
        /\ disk.wal.actions[NextIndex(state)] = NextAction(state)]_vars

C18_Witness ==
    /\ op = "apply" /\ pc = "commit_t" /\ ret = "exec"
    /\ disk.st = "ok"
    /\ Len(disk.wal.actions) >= 3
    /\ disk.wal.checkpoint = 0
    /\ state.checkpoint = 1
    /\ fs # snapFs

\* the inverses of actions k-1, ..., 0 of the journal w, k its checkpoint
InversesOfPrefix(w) ==
    [i \in 1..w.checkpoint |-> invert(w.actions[w.checkpoint + 1 - i])]

\* C19 (as claimed): the first revert of a tree, whatever checkpoint k the
\* applies before it reached, replays exactly the inverses of actions k-1,
\* ..., 0 in that order, and once it returned success every original file is
\* a regular file with its original content.
C19_RevertOfPartialApply ==
    /\ (op = "revert" /\ pc \in {"rev", "rev_copy"}) =>
          RevertSequence(state) = InversesOfPrefix(state)
    /\ (/\ pc = "idle" /\ lastDone = "revert_ok"
        /\ revFirst /\ ~rerun
        /\ failures = 0 /\ ~torn
        /\ NoCollision)
       => \A p \in UserPaths : fs[p] = tree0[p]

\* C20 (as claimed): the Symlink step of the executor, when the operating
\* system fails no call and the process does not die, succeeds and leaves
\* the source a symlink to the target, whatever was at the source before:
\* nothing, a regular file, a symlink to an existing file or a dangling one.
C20_SymlinkStep ==
    [][(pc = "exec_link" /\ crashes' = crashes /\ failures' = failures) =>
        /\ pc' = "commit_t"
        /\ fs'[NextAction(state).source] = Link(NextAction(state).target)]_vars

\* a path the scanner must leave alone never shows here: a plain user path
\* that holds a regular file
PlainFile(f, p) ==
    /\ p.dir \notin {OriginalsDir, MirageDir, ""}
    /\ p.name \notin {ReservedName, MirageDir}
    /\ f[p].kind = "file"

\* C21: every action a planning step appends has as source a regular file
\* outside the side-store whose name does not start with .mirage, never a
\* directory or a path that is a symlink at that time, and a step appends
\* actions only for a pair of such files.
C21_ScannerExclusion ==
    [][(pc = "plan" /\ state' # state) =>
        /\ \A i \in (Len(state.actions) + 1)..Len(state'.actions) :
              PlainFile(fs, state'.actions[i].source)
        /\ PlainFile(fs, walk[hi])
        /\ PlainFile(fs, walk[ti])]_vars

C21_Witness ==
    /\ pc = "exec"
    /\ Len(state.actions) >= 3
    /\ tree0[P(Dirs[1], ReservedName)] = RegFile(<<1>>)
    /\ tree0[P(OriginalsDir, Names[1])] = RegFile(<<1>>)
    /\ \E p \in UserPaths : tree0[p].kind = "symlink"
    /\ \E i \in 1..Len(state.actions) :
          tree0[state.actions[i].source] = RegFile(<<1>>)

\* the positions of the Symlink actions of the journal w with source s
SymlinksOf(w, s) ==
    {i \in 1..Len(w.actions) :
        w.actions[i].action = Symlink /\ w.actions[i].source = s}

\* redirections and actions of the journal w tell the same story
RedirectionsMatch(w) ==
    /\ DOMAIN w.redirections =
          {w.actions[i].source :
              i \in {j \in 1..Len(w.actions) : w.actions[j].action = Symlink}}
    /\ \A s \in DOMAIN w.redirections :
          /\ Cardinality(SymlinksOf(w, s)) = 1
          /\ \A i \in SymlinksOf(w, s) :
                /\ w.redirections[s] = w.actions[i].target
                /\ \E j \in 1..(i - 1) :
                      /\ w.actions[j].action = Copy
                      /\ w.actions[j].target = w.actions[i].target

\* C22: in the journal in memory and in every whole journal on disk, the
\* keys of redirections are exactly the sources of the Symlink actions, each
\* in exactly one Symlink action, mapped to that action's target, which a
\* Copy action at a lower index has as target too; and no step of an apply
\* changes or removes an entry of redirections.
C22_RedirectionsConsistent ==
    [][/\ RedirectionsMatch(state')
       /\ disk'.st = "ok" => RedirectionsMatch(disk'.wal)
       /\ (op = "apply" /\ op' = "apply") =>
             \A s \in DOMAIN state.redirections :
                /\ s \in DOMAIN state'.redirections
                /\ state'.redirections[s] = state.redirections[s]]_vars

C22_Witness ==
    /\ pc = "idle" /\ lastDone = "apply_ok"
    /\ disk.st = "ok"
    /\ Cardinality(DOMAIN disk.wal.redirections) = 3
    /\ Len(disk.wal.actions) = 4
    /\ disk.wal.checkpoint = 4

====
